---- MODULE Spec2Model ----
(***************************************************************************)
(* The real-time connection hub of Mingleo: the WebSocket server set up by *)
(* registerRoutes (connection registry `clients`, presence events, typed   *)
(* envelope dispatch, acknowledgment relay) and the collaborator calls its *)
(* handlers await, and the periodic broadcast of AIChatBotService over the  *)
(* same registry.                                                          *)
(*                                                                         *)
(* Conventions.  JavaScript's falsy values (0, undefined, null, "") are    *)
(* written 0 for numbers and "" for strings: every test the handlers make  *)
(* on these fields is a truthiness test or a strict comparison.  A value   *)
(* that may be `undefined` or an object (clients.get(ws)) is a sequence of *)
(* length 0 or 1.  Timestamps (new Date().toISOString()) are left out of   *)
(* the envelopes: no handler reads them.                                   *)
(***************************************************************************)
EXTENDS Integers, Sequences, FiniteSets, Bags, TLC

VARIABLES
    readyState,   \* connection -> "NONE" | "OPEN" | "CLOSING" | "CLOSED"
    clients,      \* the Map `clients`: connection -> <<>> | <<clientInfo>>
    tasks,        \* bag of collaborator calls awaited by a handler
    contacts,     \* the contacts table of the storage collaborator
    last,         \* the handler running in this turn of the event loop, its input
    sent,         \* the calls of send that handler has made, in order
    now,          \* Date.now(): the millisecond clock of the process
    timers,       \* the intervals set with setInterval, by scheduled job
    view          \* connection -> user -> the last presence event its client got

vars == <<readyState, clients, tasks, contacts, last, sent, now, timers, view>>

(* ------------------------------ bounds -------------------------------- *)

MaxConns == 3
MaxUsers == 2
MaxTasks == 1
\* the milliseconds the clock can advance
MaxNow == 1
\* the runs of the expired-stories cleanup that can be in flight
MaxSweeps == 2
\* the cycles of the assistant's broadcast that can be in flight
MaxCycles == 1
\* the stories one cleanup can delete
MaxDeleted == 2

Conns == 1..MaxConns
\* identities a frame may name; 0 is a falsy or missing userId
UserIds == 0..MaxUsers

Names == <<"alice", "bob", "carol", "dave">>

NameOf(u) == IF u = 0 THEN "" ELSE Names[u]

(* ------------------------- the clients Map ---------------------------- *)

\* The Map is a function from the connections to <<>> (no entry) or <<info>>.
\* Its iteration order (the order of the first clients.set of each key) is
\* replaced by the order of the connection identifiers: this permutes the
\* entries of an online-users snapshot and nothing else.

\* clients.get(ws)
ClientsGet(m, ws) == m[ws]

\* clients.set(ws, info)
ClientsSet(m, ws, info) == [m EXCEPT ![ws] = <<info>>]

\* clients.delete(ws)
ClientsDelete(m, ws) == [m EXCEPT ![ws] = <<>>]

\* Array.from(clients.values())
ClientsValues(m) ==
    LET keys == SelectSeq([i \in 1..MaxConns |-> i], LAMBDA c : m[c] # <<>>)
    IN  [i \in 1..Len(keys) |-> m[keys[i]][1]]

(* --------------------------- wss.clients ------------------------------ *)

\* Connections are accepted in the order of their identifiers, so the
\* insertion order of the Set wss.clients is the order of the identifiers.
\* A socket leaves wss.clients when it closes.
WssClients(rs) ==
    SelectSeq([i \in 1..MaxConns |-> i], LAMBDA c : rs[c] \in {"OPEN", "CLOSING"})

\* one send of env to each connection of targets, in order
SendEach(targets, env) ==
    [i \in 1..Len(targets) |-> [to |-> targets[i], env |-> env]]

(* ----------------------------- frames --------------------------------- *)

\* the fields of a parsed inbound frame that the hub reads or passes on
Frame(t) ==
    [type |-> t, userId |-> 0, username |-> "", targetUserId |-> 0,
     ownerId |-> 0, postId |-> 0, storyId |-> 0, reelId |-> 0,
     contentId |-> 0, contentType |-> "", messageId |-> "",
     originalSenderId |-> 0, sender |-> <<>>, query |-> <<>>,
     contactId |-> 0, status |-> ""]

TargetTypes == {"direct-message", "typing-indicator", "follow-request", "follow-accept"}

OwnerTypes == {"like-post", "like-story", "like-reel", "comment"}

DirectedTypes == TargetTypes \cup OwnerTypes

\* a type that no case of the switch names
OtherType == "new-post"

\* what Math.random().toString(36).substring(2, 9) can yield
RandomSuffixes == {"r1", "r2"}

\* what `${Date.now()}-${Math.random().toString(36).substring(2, 9)}` can yield
GeneratedIds == {ToString(now) \o "-" \o r : r \in RandomSuffixes}

(* ---------------------------- envelopes ------------------------------- *)

ConnectionEnvelope == [type |-> "connection", status |-> "connected"]

NotAuthenticatedEnvelope == [type |-> "error", message |-> "Not authenticated"]

UserOnlineEnvelope(data) ==
    [type |-> "user-online", userId |-> data.userId, username |-> data.username]

UserOfflineEnvelope(clientInfo) ==
    [type |-> "user-offline", userId |-> clientInfo.userId,
     username |-> clientInfo.username]

\* OnlineUsers without `c.userId !== data.userId`
OnlineUsersWithSelf(m, data) == SelectSeq(ClientsValues(m), LAMBDA c : c.userId # 0)

\* Array.from(clients.values()).filter(c => c.userId && c.userId !== data.userId)
OnlineUsers(m, data) ==
    SelectSeq(ClientsValues(m), LAMBDA c : c.userId # 0 /\ c.userId # data.userId)

OnlineUsersEnvelope(m, data) == [type |-> "online-users", users |-> OnlineUsers(m, data)]

AckEnvelope(data) == [type |-> "ack", messageId |-> data.messageId]

\* EnrichedData that sets originalSenderId only when the frame has none
EnrichedDataKeepsOriginalSenderId(data, clientInfo, mid) ==
    [data EXCEPT !.sender = <<clientInfo>>,
                 !.messageId = IF data.messageId = "" THEN mid ELSE data.messageId,
                 !.originalSenderId = IF data.originalSenderId = 0 THEN clientInfo.userId
                                      ELSE data.originalSenderId]

\* EnrichedData that keeps the `sender` and `originalSenderId` of the frame
EnrichedDataAsSent(data, clientInfo, mid) ==
    [data EXCEPT !.messageId = IF data.messageId = "" THEN mid ELSE data.messageId]

\* enrichedData: the frame, its sender replaced by the binding of the sending
\* connection, a message id when the frame has none, and originalSenderId
EnrichedData(data, clientInfo, mid) ==
    [data EXCEPT !.sender = <<clientInfo>>,
                 !.messageId = IF data.messageId = "" THEN mid ELSE data.messageId,
                 !.originalSenderId = clientInfo.userId]

\* the text generatePersonalizedMessage returns when the AI call fails or
\* answers with no content
DefaultMessage == "Hey there! Try exploring our new AI filters for your next post or story!"

\* the envelope of the assistant; stamp is Date.now() when it is built
AssistantEnvelope(message, stamp) ==
    [type |-> "ai-assistant-message", message |-> message,
     sender |-> [userId |-> 0, username |-> "MingleoAI", isBot |-> TRUE],
     messageId |-> "ai-" \o ToString(stamp)]

(* ------------------------- recipient selection ------------------------ *)

\* wss.clients.forEach(client => client !== ws && client.readyState === OPEN)
OthersOpen(rs, ws) ==
    SelectSeq(WssClients(rs), LAMBDA c : c # ws /\ rs[c] = "OPEN")

\* OpenBoundTo without the comparison of the user ids
OpenBoundToAnyUser(rs, m, uid) ==
    SelectSeq(WssClients(rs), LAMBDA c : rs[c] = "OPEN" /\ ClientsGet(m, c) # <<>>)

\* wss.clients.forEach(client => client.readyState === OPEN && clientData &&
\*                               clientData.userId === uid)
OpenBoundTo(rs, m, uid) ==
    SelectSeq(WssClients(rs),
              LAMBDA c : /\ rs[c] = "OPEN"
                         /\ ClientsGet(m, c) # <<>>
                         /\ ClientsGet(m, c)[1].userId = uid)

\* DirectedRecipient reading targetUserId in every case
DirectedRecipientTarget(data) == data.targetUserId

\* the user a directed frame is routed to; 0 when the case's guard fails
DirectedRecipient(data) ==
    IF data.type \in TargetTypes THEN data.targetUserId
    ELSE IF data.type = "like-post"
         THEN (IF data.postId # 0 /\ data.ownerId # 0 THEN data.ownerId ELSE 0)
    ELSE IF data.type = "like-story"
         THEN (IF data.storyId # 0 /\ data.ownerId # 0 THEN data.ownerId ELSE 0)
    ELSE IF data.type = "like-reel"
         THEN (IF data.reelId # 0 /\ data.ownerId # 0 THEN data.ownerId ELSE 0)
    ELSE IF data.type = "comment"
         THEN (IF data.contentId # 0 /\ data.contentType # "" /\ data.ownerId # 0
               THEN data.ownerId ELSE 0)
    ELSE 0

\* the loop of a directed case
DirectedSends(rs, m, data, enrichedData) ==
    IF DirectedRecipient(data) # 0
    THEN SendEach(OpenBoundTo(rs, m, DirectedRecipient(data)), enrichedData)
    ELSE <<>>

\* if (data.type === 'ack' && data.messageId) { ... return; }
IsAck(data) == data.type = "ack" /\ data.messageId # ""

\* AckSends relaying to every open bound connection
AckSendsToAllBound(rs, m, data) ==
    IF data.originalSenderId # 0
    THEN SendEach(SelectSeq(WssClients(rs),
                            LAMBDA c : rs[c] = "OPEN" /\ ClientsGet(m, c) # <<>>),
                  AckEnvelope(data))
    ELSE <<>>

\* the relay of an acknowledgment to the connections of originalSenderId
AckSends(rs, m, data) ==
    IF data.originalSenderId # 0
    THEN SendEach(OpenBoundTo(rs, m, data.originalSenderId), AckEnvelope(data))
    ELSE <<>>

\* DefaultSends without `client !== ws`
DefaultSendsToAll(rs, ws, enrichedData) ==
    SendEach(SelectSeq(WssClients(rs), LAMBDA c : rs[c] = "OPEN"), enrichedData)

\* default: every other open connection
DefaultSends(rs, ws, enrichedData) == SendEach(OthersOpen(rs, ws), enrichedData)

\* AuthSends without `client !== ws`
AuthSendsToAll(rs, m, ws, data) ==
    SendEach(SelectSeq(WssClients(rs), LAMBDA c : rs[c] = "OPEN"),
             UserOnlineEnvelope(data))
    \o << [to |-> ws, env |-> OnlineUsersEnvelope(m, data)] >>

\* the auth branch with the snapshot sent before the announcement
AuthSendsSnapshotFirst(rs, m, ws, data) ==
    << [to |-> ws, env |-> OnlineUsersEnvelope(m, data)] >>
    \o SendEach(OthersOpen(rs, ws), UserOnlineEnvelope(data))

\* the auth branch: user-online to the others, then the snapshot to ws
AuthSends(rs, m, ws, data) ==
    SendEach(OthersOpen(rs, ws), UserOnlineEnvelope(data))
    \o << [to |-> ws, env |-> OnlineUsersEnvelope(m, data)] >>

\* CloseSends without the readyState test
CloseSendsNoReadyState(rs, ws, clientInfo) ==
    IF clientInfo # <<>> /\ clientInfo[1].userId # 0
    THEN SendEach(SelectSeq(WssClients(rs), LAMBDA c : c # ws),
                  UserOfflineEnvelope(clientInfo[1]))
    ELSE <<>>

\* CloseSends without the test of clientInfo
CloseSendsUnconditional(rs, ws, clientInfo) ==
    SendEach(OthersOpen(rs, ws),
             UserOfflineEnvelope(IF clientInfo # <<>> THEN clientInfo[1]
                                 ELSE [userId |-> 0, username |-> ""]))

\* the close handler's broadcast
CloseSends(rs, ws, clientInfo) ==
    IF clientInfo # <<>> /\ clientInfo[1].userId # 0
    THEN SendEach(OthersOpen(rs, ws), UserOfflineEnvelope(clientInfo[1]))
    ELSE <<>>

(* ----------------------- storage collaborator ------------------------- *)

\* rows of the users table
DbSize == 7

Letters == <<"a", "b", "c">>

\* user names are unique; every second one starts with a capital
DbUsername(i) ==
    << IF i % 2 = 0 THEN "A" ELSE "b",
       Letters[(i % 3) + 1], Letters[((i \div 3) % 3) + 1] >>

DbUsers ==
    [i \in 1..DbSize |-> [id |-> i, username |-> DbUsername(i), password |-> "hash"]]

\* the first n elements: .limit(n) and .slice(0, n)
Take(seq, n) == SubSeq(seq, 1, IF Len(seq) < n THEN Len(seq) ELSE n)

ToLower(ch) == IF ch = "A" THEN "a" ELSE ch

LowerCase(str) == [i \in 1..Len(str) |-> ToLower(str[i])]

\* str.trim()
Trim(str) ==
    LET idx == {i \in 1..Len(str) : str[i] # " "}
    IN  IF idx = {} THEN <<>>
        ELSE SubSeq(str, CHOOSE i \in idx : \A k \in idx : i <= k,
                         CHOOSE i \in idx : \A k \in idx : k <= i)

\* LOWER(col) LIKE '%' + q + '%'
Like(col, q) ==
    \E i \in 0..(Len(col) - Len(q)) : SubSeq(col, i + 1, i + Len(q)) = q

\* storage.searchUsers(query), when the database answers
SearchUsers(query) ==
    IF query = <<>> \/ Trim(query) = <<>>
    THEN Take(DbUsers, 50)
    ELSE Take(SelectSeq(DbUsers,
                        LAMBDA u : Like(LowerCase(u.username), LowerCase(query))), 20)

\* const { password, ...userWithoutPassword } = user
WithoutPassword(u) == [id |-> u.id, username |-> u.username]

\* storage.getSuggestions(userId): [] when the database fails
GetSuggestions(userId, dbOk) ==
    IF dbOk
    THEN LET allUsers == Take(SelectSeq(DbUsers, LAMBDA u : u.id # userId), 10)
         IN  [i \in 1..Len(allUsers) |-> WithoutPassword(allUsers[i])]
    ELSE <<>>

\* storage.getUser(id), when the database answers: the row or undefined
GetUser(id) == SelectSeq(DbUsers, LAMBDA u : u.id = id)

\* identifiers of the rows of the contacts table
ContactIds == {1, 2}

\* the rows of the contacts table: user 1 asked user 2, user 2 asked user 3
InitContacts ==
    [c \in ContactIds |-> [id |-> c, userId |-> c, contactId |-> c + 1, status |-> "pending"]]

(* --------------------------- awaited calls ---------------------------- *)

\* a call a handler awaits: the connection and the locals its continuation uses
Task(kind, ws) ==
    [kind |-> kind, ws |-> ws, userId |-> 0, username |-> "", query |-> <<>>,
     contactId |-> 0, status |-> "", queue |-> <<>>, outcome |-> "", count |-> 0,
     failed |-> 0]

NoTask == Task("", 0)

SuggestionsTask(ws, userId) == [Task("suggestions", ws) EXCEPT !.userId = userId]

SearchTask(ws, clientInfo, query) ==
    [Task("search", ws) EXCEPT !.userId = clientInfo.userId,
                               !.username = clientInfo.username, !.query = query]

ContactTask(ws, clientInfo, data) ==
    [Task("contact", ws) EXCEPT !.userId = clientInfo.userId,
                                !.username = clientInfo.username,
                                !.contactId = data.contactId, !.status = data.status]

\* the awaited call t as its continuation finds it: the database answered,
\* or the call failed
Settled(t, dbOk) == [t EXCEPT !.outcome = IF dbOk THEN "ok" ELSE "failed"]

\* the awaits of sendPeriodicMessagesToAllUsers for the first user of queue;
\* the users after it are still to be served
AssistantTask(queue) ==
    [Task("assistant", 0) EXCEPT !.queue = queue,
                                 !.userId = IF queue = <<>> THEN 0 ELSE queue[1]]

\* the await of the expired-stories cleanup
SweepTask == Task("sweep", 0)

\* the number of awaited calls of the given kinds
Running(bag, kinds) ==
    BagCardinality([t \in {u \in BagToSet(bag) : u.kind \in kinds} |-> CopiesIn(t, bag)])

\* the calls that the handlers of the connections await
HandlerKinds == {"suggestions", "search", "contact"}

\* the call the frame starts, if any
Spawned(ws, data, clientInfo) ==
    IF data.type = "auth" THEN {SuggestionsTask(ws, data.userId)}
    ELSE IF clientInfo = <<>> \/ IsAck(data) THEN {}
    ELSE IF data.type = "search-query" /\ data.query # <<>>
         THEN {SearchTask(ws, clientInfo[1], data.query)}
    ELSE IF data.type = "contact-status-update" /\ data.contactId # 0 /\ data.status # ""
         THEN {ContactTask(ws, clientInfo[1], data)}
    ELSE {}

\* One handler runs per turn of the event loop, to its end or to its next
\* await.  `last` names the handler of the current turn, the frame or the
\* awaited call it was given, and clients.get(ws) as the turn began; between
\* two turns it is Idle and `sent` is empty.
Step(op, ws, data, clientInfo, task) ==
    [op |-> op, ws |-> ws, data |-> data, clientInfo |-> clientInfo, task |-> task]

Idle == Step("idle", 0, Frame(""), <<>>, NoTask)

(* ------------------------- inbound frames ----------------------------- *)

AuthFrames ==
    {[Frame("auth") EXCEPT !.userId = u, !.username = NameOf(u)] : u \in UserIds}

TargetFrames ==
    {[Frame(t) EXCEPT !.targetUserId = u] : t \in TargetTypes, u \in UserIds}
    \cup {[Frame("direct-message") EXCEPT !.targetUserId = 1, !.messageId = "m1"]}

\* a like or a comment names the owner of the content in ownerId; these
\* frames also carry a targetUserId, which the hub does not read
OwnerFrames ==
    {[Frame("like-post") EXCEPT !.targetUserId = 1, !.ownerId = u, !.postId = r]
        : u \in UserIds, r \in 0..1}
    \cup {[Frame("like-story") EXCEPT !.targetUserId = 1, !.ownerId = u, !.storyId = r]
        : u \in UserIds, r \in 0..1}
    \cup {[Frame("like-reel") EXCEPT !.targetUserId = 1, !.ownerId = u, !.reelId = r]
        : u \in UserIds, r \in 0..1}
    \cup {[Frame("comment") EXCEPT !.targetUserId = 1, !.ownerId = u, !.contentId = r,
                                   !.contentType = "post"]
        : u \in UserIds, r \in 0..1}

AckFrames ==
    {[Frame("ack") EXCEPT !.messageId = m, !.originalSenderId = u]
        : m \in {"", "m1"}, u \in UserIds}

\* the queries of the search frames: none, a letter, a blank
Queries == {<<>>, <<"a">>, <<" ">>}

SearchFrames == {[Frame("search-query") EXCEPT !.query = q] : q \in Queries}

ContactFrames ==
    {[Frame("contact-status-update") EXCEPT !.contactId = c, !.status = st]
        : c \in 0..3, st \in {"", "accepted"}}

\* frames of a directed and of an unlisted type in which the client has
\* filled in `sender` and `originalSenderId` itself
SpoofedFrames ==
    {[Frame(t) EXCEPT !.targetUserId = 1, !.originalSenderId = 2,
                      !.sender = << [userId |-> 2, username |-> NameOf(2)] >>]
        : t \in {"direct-message", OtherType}}

OtherFrames == {[Frame(OtherType) EXCEPT !.messageId = m] : m \in {"", "m1"}}

\* frames that lack a field their type needs: the recipient of a directed
\* type, the messageId or the originalSenderId of an acknowledgment, the
\* query of a search, the contactId or the status of a contact update
MalformedFrames ==
    {Frame(t) : t \in TargetTypes}
    \cup {[Frame("like-post") EXCEPT !.ownerId = 1, !.postId = 1],
          [Frame("like-story") EXCEPT !.ownerId = 1, !.storyId = 1],
          [Frame("like-reel") EXCEPT !.ownerId = 1, !.reelId = 1],
          [Frame("comment") EXCEPT !.ownerId = 1, !.contentId = 1, !.contentType = "post"]}
    \cup {[Frame("ack") EXCEPT !.originalSenderId = 1],
          [Frame("ack") EXCEPT !.messageId = "m1"]}
    \cup {Frame("search-query")}
    \cup {[Frame("contact-status-update") EXCEPT !.status = "accepted"],
          [Frame("contact-status-update") EXCEPT !.contactId = 1]}

Frames ==
    AuthFrames \cup TargetFrames \cup OwnerFrames \cup AckFrames
    \cup SearchFrames \cup ContactFrames \cup OtherFrames \cup SpoofedFrames
    \cup MalformedFrames

(* ------------------------------ timers -------------------------------- *)

Jobs == {"sweep", "assistant"}

\* an interval: its delay in milliseconds, and the number of times the job's
\* delay has been set (0: the interval was never created)
Timer(delay, armed) == [delay |-> delay, armed |-> armed]

HOUR_IN_MS == 60 * 60 * 1000

\* Math.floor(Math.random() * 30 * 60 * 1000) + 30 * 60 * 1000: the least
\* and the greatest value (Math.random() is in [0, 1))
AssistantDelays == {30 * 60 * 1000, (30 * 60 * 1000 - 1) + 30 * 60 * 1000}

\* registerRoutes creates the interval of the cleanup; it imports
\* AIChatBotService and never constructs it
RegisterRoutesTimers ==
    [j \in Jobs |-> IF j = "sweep" THEN Timer(HOUR_IN_MS, 1) ELSE Timer(0, 0)]

(* ------------------------- what the clients see ----------------------- *)

PresenceTypes == {"user-online", "user-offline"}

\* no client has received a presence event
NoView == [c \in Conns |-> [u \in UserIds |-> ""]]

RECURSIVE Received(_, _, _)
\* the views once the sends of s have arrived, in order: a send made on an
\* open socket reaches its client, which notes the event against its userId
Received(v, s, rs) ==
    IF s = <<>> THEN v
    ELSE LET e == Head(s)
         IN  Received(IF e.env.type \in PresenceTypes /\ rs[e.to] = "OPEN"
                      THEN [v EXCEPT ![e.to][e.env.userId] = e.env.type]
                      ELSE v,
                      Tail(s), rs)

\* the view of a connection that has closed is no longer shown to anyone
Shown(v, rs) == [c \in Conns |-> IF rs[c] = "CLOSED" THEN NoView[c] ELSE v[c]]

(* ------------------------------ actions ------------------------------- *)

Init ==
    /\ readyState = [c \in Conns |-> "NONE"]
    /\ clients = [c \in Conns |-> <<>>]
    /\ tasks = EmptyBag
    /\ contacts = InitContacts
    /\ last = Idle
    /\ sent = <<>>
    /\ now = 0
    /\ timers = RegisterRoutesTimers
    /\ view = NoView

\* the hub once `new AIChatBotService(clients)` has run: the constructor
\* draws the delay of its interval
InitAssistant ==
    /\ readyState = [c \in Conns |-> "NONE"]
    /\ clients = [c \in Conns |-> <<>>]
    /\ tasks = EmptyBag
    /\ contacts = InitContacts
    /\ last = Idle
    /\ sent = <<>>
    /\ now = 0
    /\ \E delay \in AssistantDelays :
          timers = [RegisterRoutesTimers EXCEPT !["assistant"] = Timer(delay, 1)]
    /\ view = NoView

\* wss.on('connection'): the handlers are installed and the confirmation sent
OnConnection(ws) ==
    /\ last = Idle
    /\ readyState[ws] = "NONE"
    /\ \A c \in Conns : c < ws => readyState[c] # "NONE"
    /\ readyState' = [readyState EXCEPT ![ws] = "OPEN"]
    /\ sent' = << [to |-> ws, env |-> ConnectionEnvelope] >>
    /\ last' = Step("connection", ws, Frame(""), <<>>, NoTask)
    /\ UNCHANGED <<clients, tasks, contacts, now, timers, view>>

\* the closing handshake starts: the socket is no longer OPEN, and its
\* 'close' event has not been emitted yet
Closing(ws) ==
    /\ last = Idle
    /\ readyState[ws] = "OPEN"
    /\ readyState' = [readyState EXCEPT ![ws] = "CLOSING"]
    /\ UNCHANGED <<clients, tasks, contacts, last, sent, now, timers, view>>

\* ws.on('close')
OnClose(ws) ==
    /\ last = Idle
    /\ readyState[ws] \in {"OPEN", "CLOSING"}
    /\ LET clientInfo == ClientsGet(clients, ws)
       IN  /\ readyState' = [readyState EXCEPT ![ws] = "CLOSED"]
           /\ sent' = CloseSends(readyState', ws, clientInfo)
           /\ clients' = ClientsDelete(clients, ws)
           /\ last' = Step("close", ws, Frame(""), clientInfo, NoTask)
    /\ UNCHANGED <<tasks, contacts, now, timers, view>>

\* MessageSends with no reply to a frame of an unbound connection
MessageSendsNoReply(rs, m, ws, data, clientInfo, mid) ==
    IF data.type = "auth" THEN AuthSends(rs, m, ws, data)
    ELSE IF clientInfo = <<>> THEN <<>>
    ELSE IF IsAck(data) THEN AckSends(rs, m, data)
    ELSE IF data.type \in DirectedTypes
         THEN DirectedSends(rs, m, data, EnrichedData(data, clientInfo[1], mid))
    ELSE IF data.type \in {"search-query", "contact-status-update"} THEN <<>>
    ELSE DefaultSends(rs, ws, EnrichedData(data, clientInfo[1], mid))

\* the sends of ws.on('message') up to its first await
MessageSends(rs, m, ws, data, clientInfo, mid) ==
    IF data.type = "auth" THEN AuthSends(rs, m, ws, data)
    ELSE IF clientInfo = <<>> THEN << [to |-> ws, env |-> NotAuthenticatedEnvelope] >>
    ELSE IF IsAck(data) THEN AckSends(rs, m, data)
    ELSE IF data.type \in DirectedTypes
         THEN DirectedSends(rs, m, data, EnrichedData(data, clientInfo[1], mid))
    ELSE IF data.type \in {"search-query", "contact-status-update"} THEN <<>>
    ELSE DefaultSends(rs, ws, EnrichedData(data, clientInfo[1], mid))

\* a listener that would not take a frame of ws while a handler of ws awaits
HeldBackPerConnection(bag, ws) ==
    \E t \in BagToSet(bag) : t.kind \in HandlerKinds /\ t.ws = ws

\* ws.on('message', async ...): the listener is called for each frame as it
\* arrives, whatever the handlers that are suspended at an await; no frame
\* is held back
HeldBack(bag, ws) == FALSE

\* ws.on('message'), up to its first await
OnMessage(ws, data) ==
    /\ last = Idle
    /\ readyState[ws] = "OPEN"
    /\ ~HeldBack(tasks, ws)
    /\ LET clientInfo == ClientsGet(clients, ws)
           spawned == Spawned(ws, data, clientInfo)
       IN  /\ spawned # {} => Running(tasks, HandlerKinds) < MaxTasks
           /\ clients' = IF data.type = "auth"
                         THEN ClientsSet(clients, ws,
                                  [userId |-> data.userId, username |-> data.username])
                         ELSE clients
           /\ \E mid \in (IF data.type = "auth" \/ clientInfo = <<>> \/ IsAck(data)
                             \/ data.messageId # ""
                          THEN {data.messageId} ELSE GeneratedIds) :
                 sent' = MessageSends(readyState, clients', ws, data, clientInfo, mid)
           /\ tasks' = tasks (+) SetToBag(spawned)
           /\ last' = Step("message", ws, data, clientInfo, NoTask)
    /\ UNCHANGED <<readyState, contacts, now, timers, view>>

\* ws.on('message') without its try/catch: the exception of JSON.parse leaves
\* the listener and ends the process, its sockets and its intervals
OnParseErrorUncaught(ws) ==
    /\ last = Idle
    /\ readyState[ws] = "OPEN"
    /\ sent' = <<>>
    /\ last' = Step("parse-error", ws, Frame(""), ClientsGet(clients, ws), NoTask)
    /\ readyState' = [c \in Conns |-> IF readyState[c] = "NONE" THEN "NONE" ELSE "CLOSED"]
    /\ clients' = [c \in Conns |-> <<>>]
    /\ timers' = [j \in Jobs |-> Timer(timers[j].delay, 0)]
    /\ UNCHANGED <<tasks, contacts, now, view>>

\* ws.on('message') on a frame that is not JSON: JSON.parse throws and the
\* catch of the handler logs the error
OnParseError(ws) ==
    /\ last = Idle
    /\ readyState[ws] = "OPEN"
    /\ sent' = <<>>
    /\ last' = Step("parse-error", ws, Frame(""), ClientsGet(clients, ws), NoTask)
    /\ UNCHANGED <<readyState, clients, tasks, contacts, now, timers, view>>

\* sendFriendSuggestions after its await
SuggestionsDone(t, dbOk) ==
    /\ last = Idle
    /\ BagIn(t, tasks) /\ t.kind = "suggestions"
    /\ tasks' = tasks (-) SetToBag({t})
    /\ sent' = IF readyState[t.ws] = "OPEN"
               THEN << [to |-> t.ws,
                        env |-> [type |-> "friend-suggestions",
                                 suggestions |-> Take(GetSuggestions(t.userId, dbOk), 5)]] >>
               ELSE <<>>
    /\ last' = Step("suggestions", t.ws, Frame(""), ClientsGet(clients, t.ws), Settled(t, dbOk))
    /\ UNCHANGED <<readyState, clients, contacts, now, timers, view>>

\* SearchResults without the filter
SearchResultsWithSelf(results, userId) == Take(results, 5)

\* results.filter(user => user.id !== clientInfo.userId).slice(0, 5)
SearchResults(results, userId) ==
    Take(SelectSeq(results, LAMBDA u : u.id # userId), 5)

\* handleSearchQuery after its await
SearchDone(t, dbOk) ==
    /\ last = Idle
    /\ BagIn(t, tasks) /\ t.kind = "search"
    /\ tasks' = tasks (-) SetToBag({t})
    /\ sent' = IF readyState[t.ws] # "OPEN" THEN <<>>
               ELSE IF dbOk
               THEN << [to |-> t.ws,
                        env |-> [type |-> "search-results", query |-> t.query,
                                 results |-> SearchResults(SearchUsers(t.query),
                                                           t.userId)]] >>
               ELSE << [to |-> t.ws,
                        env |-> [type |-> "error",
                                 message |-> "Error processing search query"]] >>
    /\ last' = Step("search", t.ws, Frame(""), ClientsGet(clients, t.ws), Settled(t, dbOk))
    /\ UNCHANGED <<readyState, clients, contacts, now, timers, view>>

\* storage.updateContactStatus(id, status), when the database answers
UpdateContactStatus(tbl, id, status) ==
    IF id \in DOMAIN tbl THEN [tbl EXCEPT ![id].status = status] ELSE tbl

ContactStatusChanged(updatedContact, t) ==
    [type |-> "contact-status-changed", contactId |-> updatedContact.id,
     status |-> updatedContact.status, updatedBy |-> t.userId]

\* the broadcast of a contact status change, given up when the requesting
\* socket is no longer open
ContactSendsUnlessRequesterClosed(rs, m, t, updatedContact) ==
    IF rs[t.ws] # "OPEN" THEN <<>>
    ELSE SendEach(SelectSeq(WssClients(rs),
                            LAMBDA c : /\ rs[c] = "OPEN"
                                       /\ ClientsGet(m, c) # <<>>
                                       /\ \/ ClientsGet(m, c)[1].userId = t.userId
                                          \/ ClientsGet(m, c)[1].userId = updatedContact.contactId),
                  ContactStatusChanged(updatedContact, t))

\* the broadcast of a contact status change
ContactSends(rs, m, t, updatedContact) ==
    SendEach(SelectSeq(WssClients(rs),
                       LAMBDA c : /\ rs[c] = "OPEN"
                                  /\ ClientsGet(m, c) # <<>>
                                  /\ \/ ClientsGet(m, c)[1].userId = t.userId
                                     \/ ClientsGet(m, c)[1].userId = updatedContact.contactId),
             ContactStatusChanged(updatedContact, t))

ContactErrorEnvelope ==
    [type |-> "error", message |-> "Failed to update contact status",
     errorCode |-> "CONTACT_STATUS_UPDATE_FAILED"]

\* case 'contact-status-update' after its await, with an error reply when
\* storage.updateContactStatus finds no record
ContactDoneAbsentIsError(t, dbOk) ==
    /\ last = Idle
    /\ BagIn(t, tasks) /\ t.kind = "contact"
    /\ tasks' = tasks (-) SetToBag({t})
    /\ contacts' = IF dbOk THEN UpdateContactStatus(contacts, t.contactId, t.status)
                   ELSE contacts
    /\ sent' = IF dbOk /\ t.contactId \in DOMAIN contacts
               THEN ContactSends(readyState, clients, t, contacts'[t.contactId])
               ELSE << [to |-> t.ws, env |-> ContactErrorEnvelope] >>
    /\ last' = Step("contact", t.ws, Frame(""), ClientsGet(clients, t.ws), Settled(t, dbOk))
    /\ UNCHANGED <<readyState, clients, now, timers, view>>

\* case 'contact-status-update' after its await.  The catch calls ws.send
\* without looking at ws.readyState: `sent` records the call whatever the
\* state of the socket.  On a socket that is not OPEN the library either
\* throws, into the catch of the handler, or drops the frame; neither
\* outcome delivers anything or changes the state of the hub.
ContactDone(t, dbOk) ==
    /\ last = Idle
    /\ BagIn(t, tasks) /\ t.kind = "contact"
    /\ tasks' = tasks (-) SetToBag({t})
    /\ contacts' = IF dbOk THEN UpdateContactStatus(contacts, t.contactId, t.status)
                   ELSE contacts
    /\ sent' = IF dbOk
               THEN (IF t.contactId \in DOMAIN contacts
                     THEN ContactSends(readyState, clients, t, contacts'[t.contactId])
                     ELSE <<>>)
               ELSE << [to |-> t.ws, env |-> ContactErrorEnvelope] >>
    /\ last' = Step("contact", t.ws, Frame(""), ClientsGet(clients, t.ws), Settled(t, dbOk))
    /\ UNCHANGED <<readyState, clients, now, timers, view>>

\* the Set activeUserIds: the truthy userIds of the registry, each once, in
\* the order of their first entry
ActiveUserIds(m) ==
    LET vals == ClientsValues(m)
        idx == SelectSeq([i \in 1..Len(vals) |-> i],
                         LAMBDA i : /\ vals[i].userId # 0
                                    /\ \A j \in 1..(i - 1) : vals[j].userId # vals[i].userId)
    IN  [k \in 1..Len(idx) |-> vals[idx[k]].userId]

\* the callback of the interval of initPeriodicMessages:
\* sendPeriodicMessagesToAllUsers up to its first await
AssistantFire ==
    /\ last = Idle
    /\ timers["assistant"].armed > 0
    /\ LET queue == ActiveUserIds(clients)
       IN  /\ queue # <<>> => Running(tasks, {"assistant"}) < MaxCycles
           /\ tasks' = IF queue # <<>> THEN tasks (+) SetToBag({AssistantTask(queue)})
                       ELSE tasks
           /\ last' = Step("assistant-fire", 0, Frame(""), <<>>, AssistantTask(queue))
    /\ sent' = <<>>
    /\ UNCHANGED <<readyState, clients, contacts, now, timers, view>>

\* what the awaits for one user end in: the AI answered, the AI call failed
\* (generatePersonalizedMessage returns its default text), or a storage call
\* rejected (the catch of the loop body logs it)
AssistantOutcomes == {"generated", "default", "failed"}

\* the delivery loop without the test of clientInfo.userId
AssistantRecipientsAnyUser(rs, m, userId) ==
    SelectSeq([i \in 1..MaxConns |-> i],
              LAMBDA c : ClientsGet(m, c) # <<>> /\ rs[c] = "OPEN")

\* the connections the delivery loop sends to
AssistantRecipients(rs, m, userId) ==
    SelectSeq([i \in 1..MaxConns |-> i],
              LAMBDA c : /\ ClientsGet(m, c) # <<>>
                         /\ ClientsGet(m, c)[1].userId = userId
                         /\ rs[c] = "OPEN")

\* sendPeriodicMessagesToAllUsers from the end of the awaits for one user to
\* the first await for the next one.  Date.now() is read once per send: the
\* clock may advance between two sends of the loop.  t.failed counts the users
\* of the cycle that the catch of the loop body has logged so far.
AssistantUserDone(t, outcome) ==
    /\ last = Idle
    /\ BagIn(t, tasks) /\ t.kind = "assistant"
    /\ LET userId == t.queue[1]
           rest == Tail(t.queue)
           recipients == IF outcome = "failed" \/ GetUser(userId) = <<>> THEN <<>>
                         ELSE AssistantRecipients(readyState, clients, userId)
           message == IF outcome = "generated" THEN "generated" ELSE DefaultMessage
           failed == t.failed + (IF outcome = "failed" THEN 1 ELSE 0)
       IN  /\ \E stamps \in [1..Len(recipients) -> now..MaxNow] :
                 /\ \A i, j \in 1..Len(recipients) : i <= j => stamps[i] <= stamps[j]
                 /\ sent' = [i \in 1..Len(recipients) |->
                                [to |-> recipients[i],
                                 env |-> AssistantEnvelope(message, stamps[i])]]
                 /\ now' = IF recipients = <<>> THEN now ELSE stamps[Len(recipients)]
           /\ tasks' = (tasks (-) SetToBag({t}))
                       (+) (IF rest # <<>>
                            THEN SetToBag({[AssistantTask(rest) EXCEPT !.failed = failed]})
                            ELSE EmptyBag)
           /\ last' = Step("assistant", 0, Frame(""), <<>>, [t EXCEPT !.status = outcome])
    /\ UNCHANGED <<readyState, clients, contacts, timers, view>>

\* a millisecond passes between two turns of the event loop
Tick ==
    /\ last = Idle
    /\ now < MaxNow
    /\ now' = now + 1
    /\ UNCHANGED <<readyState, clients, tasks, contacts, last, sent, timers, view>>

StoriesCleanupEnvelope(count) == [type |-> "stories-cleanup", count |-> count]

\* wss.clients.forEach without the test of readyState
CleanupRecipientsUnfiltered(rs) == WssClients(rs)

\* wss.clients.forEach(client => { if (client.readyState === WebSocket.OPEN) ... })
CleanupRecipients(rs) ==
    SelectSeq(WssClients(rs), LAMBDA c : rs[c] = "OPEN")

\* the callback of the cleanup interval, up to its await
SweepFire ==
    /\ last = Idle
    /\ timers["sweep"].armed > 0
    /\ Running(tasks, {"sweep"}) < MaxSweeps
    /\ tasks' = tasks (+) SetToBag({SweepTask})
    /\ sent' = <<>>
    /\ last' = Step("sweep-fire", 0, Frame(""), <<>>, SweepTask)
    /\ UNCHANGED <<readyState, clients, contacts, now, timers, view>>

\* the callback of the cleanup interval after its await, when it also drops
\* the bindings of the sockets that are not open
SweepDoneDropsStale(t, dbOk, deletedCount) ==
    /\ last = Idle
    /\ BagIn(t, tasks) /\ t.kind = "sweep"
    /\ tasks' = tasks (-) SetToBag({t})
    /\ sent' = IF dbOk /\ deletedCount > 0
               THEN SendEach(CleanupRecipients(readyState),
                             StoriesCleanupEnvelope(deletedCount))
               ELSE <<>>
    /\ clients' = [c \in Conns |-> IF readyState[c] = "OPEN" THEN clients[c] ELSE <<>>]
    /\ last' = Step("sweep", 0, Frame(""), <<>>,
                    [Settled(t, dbOk) EXCEPT !.count = IF dbOk THEN deletedCount ELSE 0])
    /\ UNCHANGED <<readyState, contacts, now, timers, view>>

\* the callback of the cleanup interval after its await:
\* storage.deleteExpiredStories() answered deletedCount, or rejected
SweepDone(t, dbOk, deletedCount) ==
    /\ last = Idle
    /\ BagIn(t, tasks) /\ t.kind = "sweep"
    /\ tasks' = tasks (-) SetToBag({t})
    /\ sent' = IF dbOk /\ deletedCount > 0
               THEN SendEach(CleanupRecipients(readyState),
                             StoriesCleanupEnvelope(deletedCount))
               ELSE <<>>
    /\ last' = Step("sweep", 0, Frame(""), <<>>,
                    [Settled(t, dbOk) EXCEPT !.count = IF dbOk THEN deletedCount ELSE 0])
    /\ UNCHANGED <<readyState, clients, contacts, now, timers, view>>

\* the turn ends: what the handler sent has left for the transport
EndTurn ==
    /\ last # Idle
    /\ last' = Idle
    /\ sent' = <<>>
    /\ UNCHANGED <<readyState, clients, tasks, contacts, now, timers, view>>

\* the turn ends, and the clients note the presence events sent to them
EndTurnObserved ==
    /\ last # Idle
    /\ last' = Idle
    /\ sent' = <<>>
    /\ view' = Shown(Received(view, sent, readyState), readyState)
    /\ UNCHANGED <<readyState, clients, tasks, contacts, now, timers>>

Lifecycle ==
    \/ \E ws \in Conns : OnConnection(ws)
    \/ \E ws \in Conns : Closing(ws)
    \/ \E ws \in Conns : OnClose(ws)
    \/ EndTurn

LifecycleObserved ==
    \/ \E ws \in Conns : OnConnection(ws)
    \/ \E ws \in Conns : Closing(ws)
    \/ \E ws \in Conns : OnClose(ws)
    \/ EndTurnObserved

Next ==
    \/ Lifecycle
    \/ \E ws \in Conns, data \in Frames : OnMessage(ws, data)
    \/ \E t \in BagToSet(tasks), dbOk \in BOOLEAN : SuggestionsDone(t, dbOk)
    \/ \E t \in BagToSet(tasks), dbOk \in BOOLEAN : SearchDone(t, dbOk)
    \/ \E t \in BagToSet(tasks), dbOk \in BOOLEAN : ContactDone(t, dbOk)
    \/ \E ws \in Conns : OnParseError(ws)
    \/ Tick
    \/ AssistantFire
    \/ \E t \in BagToSet(tasks), outcome \in AssistantOutcomes : AssistantUserDone(t, outcome)
    \/ SweepFire
    \/ \E t \in BagToSet(tasks), dbOk \in BOOLEAN, deletedCount \in 0..MaxDeleted :
          SweepDone(t, dbOk, deletedCount)

Spec == Init /\ [][Next]_vars

\* the hub when its clients send auth, directed and unlisted frames only
RoutingFrames == AuthFrames \cup TargetFrames \cup OwnerFrames \cup OtherFrames

NextRouting ==
    \/ Lifecycle
    \/ \E ws \in Conns, data \in RoutingFrames : OnMessage(ws, data)
    \/ \E t \in BagToSet(tasks), dbOk \in BOOLEAN : SuggestionsDone(t, dbOk)

SpecRouting == Init /\ [][NextRouting]_vars

\* the hub when its clients send auth frames and one unlisted frame only
PresenceFrames == AuthFrames \cup {Frame(OtherType)}

NextPresence ==
    \/ Lifecycle
    \/ \E ws \in Conns, data \in PresenceFrames : OnMessage(ws, data)
    \/ \E t \in BagToSet(tasks), dbOk \in BOOLEAN : SuggestionsDone(t, dbOk)

SpecPresence == Init /\ [][NextPresence]_vars

\* the hub when its clients send auth frames only, with the presence events
\* its clients receive
NextObserved ==
    \/ LifecycleObserved
    \/ \E ws \in Conns, data \in AuthFrames : OnMessage(ws, data)
    \/ \E t \in BagToSet(tasks), dbOk \in BOOLEAN : SuggestionsDone(t, dbOk)

SpecObserved == Init /\ [][NextObserved]_vars

\* the hub when its clients send auth frames, acknowledgments and one
\* direct message only
AckRelayFrames ==
    AuthFrames \cup AckFrames
    \cup {[Frame("direct-message") EXCEPT !.targetUserId = 1, !.messageId = "m1"]}

NextAck ==
    \/ Lifecycle
    \/ \E ws \in Conns, data \in AckRelayFrames : OnMessage(ws, data)
    \/ \E t \in BagToSet(tasks), dbOk \in BOOLEAN : SuggestionsDone(t, dbOk)

SpecAck == Init /\ [][NextAck]_vars

\* the hub when its clients send auth frames, direct messages and unlisted
\* frames, with and without a messageId, sender and originalSenderId
EnrichFrames ==
    AuthFrames \cup OtherFrames \cup SpoofedFrames
    \cup {[Frame("direct-message") EXCEPT !.targetUserId = 1, !.messageId = m]
            : m \in {"", "m1"}}

NextEnrich ==
    \/ Lifecycle
    \/ \E ws \in Conns, data \in EnrichFrames : OnMessage(ws, data)
    \/ \E t \in BagToSet(tasks), dbOk \in BOOLEAN : SuggestionsDone(t, dbOk)

SpecEnrich == Init /\ [][NextEnrich]_vars

\* the hub with the assistant's interval running, when its clients send
\* auth frames only
NextAssistant ==
    \/ Lifecycle
    \/ Tick
    \/ \E ws \in Conns, data \in AuthFrames : OnMessage(ws, data)
    \/ \E t \in BagToSet(tasks), dbOk \in BOOLEAN : SuggestionsDone(t, dbOk)
    \/ AssistantFire
    \/ \E t \in BagToSet(tasks), outcome \in AssistantOutcomes : AssistantUserDone(t, outcome)

SpecAssistant == InitAssistant /\ [][NextAssistant]_vars

\* the hub as registerRoutes leaves it, when its clients send auth frames
\* only
NextSweep ==
    \/ Lifecycle
    \/ \E ws \in Conns, data \in AuthFrames : OnMessage(ws, data)
    \/ \E t \in BagToSet(tasks), dbOk \in BOOLEAN : SuggestionsDone(t, dbOk)
    \/ SweepFire
    \/ \E t \in BagToSet(tasks), dbOk \in BOOLEAN, deletedCount \in 0..MaxDeleted :
          SweepDone(t, dbOk, deletedCount)

SpecSweep == Init /\ [][NextSweep]_vars

\* the hub when its clients send auth frames, frames that lack a needed
\* field, and frames that are not JSON
NextMalformed ==
    \/ Lifecycle
    \/ \E ws \in Conns, data \in AuthFrames \cup MalformedFrames : OnMessage(ws, data)
    \/ \E ws \in Conns : OnParseError(ws)
    \/ \E t \in BagToSet(tasks), dbOk \in BOOLEAN : SuggestionsDone(t, dbOk)

SpecMalformed == Init /\ [][NextMalformed]_vars

\* the hub when its clients send auth frames, searches and contact updates
\* only
CollaboratorFrames == AuthFrames \cup SearchFrames \cup ContactFrames

NextCollaborator ==
    \/ Lifecycle
    \/ \E ws \in Conns, data \in CollaboratorFrames : OnMessage(ws, data)
    \/ \E t \in BagToSet(tasks), dbOk \in BOOLEAN : SuggestionsDone(t, dbOk)
    \/ \E t \in BagToSet(tasks), dbOk \in BOOLEAN : SearchDone(t, dbOk)
    \/ \E t \in BagToSet(tasks), dbOk \in BOOLEAN : ContactDone(t, dbOk)

SpecCollaborator == Init /\ [][NextCollaborator]_vars

\* the hub when its clients send auth frames and searches only
NextSearch ==
    \/ Lifecycle
    \/ \E ws \in Conns, data \in AuthFrames \cup SearchFrames : OnMessage(ws, data)
    \/ \E t \in BagToSet(tasks), dbOk \in BOOLEAN : SuggestionsDone(t, dbOk)
    \/ \E t \in BagToSet(tasks), dbOk \in BOOLEAN : SearchDone(t, dbOk)

SpecSearch == Init /\ [][NextSearch]_vars

\* the hub when its clients send auth frames and contact updates only
NextContact ==
    \/ Lifecycle
    \/ \E ws \in Conns, data \in AuthFrames \cup ContactFrames : OnMessage(ws, data)
    \/ \E t \in BagToSet(tasks), dbOk \in BOOLEAN : SuggestionsDone(t, dbOk)
    \/ \E t \in BagToSet(tasks), dbOk \in BOOLEAN : ContactDone(t, dbOk)

SpecContact == Init /\ [][NextContact]_vars

\* the hub with its cleanup interval, when its clients send auth frames,
\* searches, updates of the first contact and frames that are not JSON
IsolationFrames ==
    AuthFrames \cup SearchFrames
    \cup {[Frame("contact-status-update") EXCEPT !.contactId = 1, !.status = "accepted"]}

NextIsolation ==
    \/ Lifecycle
    \/ \E ws \in Conns, data \in IsolationFrames : OnMessage(ws, data)
    \/ \E ws \in Conns : OnParseError(ws)
    \/ \E t \in BagToSet(tasks), dbOk \in BOOLEAN : SuggestionsDone(t, dbOk)
    \/ \E t \in BagToSet(tasks), dbOk \in BOOLEAN : SearchDone(t, dbOk)
    \/ \E t \in BagToSet(tasks), dbOk \in BOOLEAN : ContactDone(t, dbOk)
    \/ SweepFire
    \/ \E t \in BagToSet(tasks), dbOk \in BOOLEAN, deletedCount \in 0..MaxDeleted :
          SweepDone(t, dbOk, deletedCount)

SpecIsolation == Init /\ [][NextIsolation]_vars

\* the hub with both intervals running, when its clients send the auth frame
\* of one user and one frame of each kind the handler dispatches: a direct
\* message, an acknowledgment, a search, a contact update, an unlisted type
RegistryFrames ==
    {[Frame("auth") EXCEPT !.userId = 1, !.username = NameOf(1)],
     [Frame("direct-message") EXCEPT !.targetUserId = 1, !.messageId = "m1"],
     [Frame("ack") EXCEPT !.messageId = "m1", !.originalSenderId = 1],
     [Frame("search-query") EXCEPT !.query = <<"a">>],
     [Frame("contact-status-update") EXCEPT !.contactId = 1, !.status = "accepted"],
     [Frame(OtherType) EXCEPT !.messageId = "m1"]}

NextRegistry ==
    \/ Lifecycle
    \/ \E ws \in Conns, data \in RegistryFrames : OnMessage(ws, data)
    \/ \E ws \in Conns : OnParseError(ws)
    \/ \E t \in BagToSet(tasks), dbOk \in BOOLEAN : SuggestionsDone(t, dbOk)
    \/ \E t \in BagToSet(tasks), dbOk \in BOOLEAN : SearchDone(t, dbOk)
    \/ \E t \in BagToSet(tasks), dbOk \in BOOLEAN : ContactDone(t, dbOk)
    \/ SweepFire
    \/ \E t \in BagToSet(tasks), dbOk \in BOOLEAN, deletedCount \in 0..MaxDeleted :
          SweepDone(t, dbOk, deletedCount)
    \/ AssistantFire
    \/ \E t \in BagToSet(tasks), outcome \in AssistantOutcomes : AssistantUserDone(t, outcome)

SpecRegistry == InitAssistant /\ [][NextRegistry]_vars

(* ===================== observations used by the claims ================ *)

\* the envelopes sent to connection c in this turn
SentTo(c) == SelectSeq(sent, LAMBDA s : s.to = c)

\* the envelopes of type t sent to connection c in this turn
SentOfType(c, t) == SelectSeq(sent, LAMBDA s : s.to = c /\ s.env.type = t)

IsBound(c) == clients[c] # <<>>

IsOpen(c) == readyState[c] = "OPEN"

\* connection c has a binding to the user u
BoundToUser(c, u) == clients[c] # <<>> /\ clients[c][1].userId = u

\* this turn is ws.on('message') on a frame of an unbound connection
UnauthenticatedFrame ==
    last.op = "message" /\ last.data.type # "auth" /\ last.clientInfo = <<>>

\* this turn is ws.on('message') on a frame of type t of a bound connection
AuthenticatedFrame(t) ==
    last.op = "message" /\ last.data.type = t /\ last.clientInfo # <<>>

\* what a recipient of the frame of this turn receives: the frame with the
\* sender's binding in `sender`
IsEnrichedFrame(env) ==
    /\ env.type = last.data.type
    /\ env.targetUserId = last.data.targetUserId
    /\ env.sender = last.clientInfo

\* exactly the open connections bound to u received the frame, once each
DeliveredExactlyTo(u) ==
    \A c \in Conns :
        /\ Len(SentTo(c)) = (IF IsOpen(c) /\ BoundToUser(c, u) THEN 1 ELSE 0)
        /\ \A i \in 1..Len(SentTo(c)) : IsEnrichedFrame(SentTo(c)[i].env)

(* ------------------------------- C1 ----------------------------------- *)

\* C1: a frame whose type is not `auth`, received on a connection without a
\* binding, is answered by exactly one `error` envelope to that connection;
\* no other connection is sent anything, and the connection stays open and
\* unbound.
C1_UnauthenticatedFrameGetsOneError ==
    UnauthenticatedFrame =>
        /\ Len(SentOfType(last.ws, "error")) = 1
        /\ \A i \in 1..Len(sent) : sent[i].to = last.ws /\ sent[i].env.type = "error"
        /\ IsOpen(last.ws)
        /\ ~IsBound(last.ws)

\* an unbound connection sent a directed frame naming a user who has an
\* open bound connection
C1_Witness ==
    /\ UnauthenticatedFrame
    /\ last.data.type = "direct-message"
    /\ \E c \in Conns : IsOpen(c) /\ BoundToUser(c, last.data.targetUserId)
    /\ sent # <<>>

(* ------------------------------- C2 ----------------------------------- *)

\* C2: a `direct-message` with targetUserId = U from a bound connection is
\* delivered, enriched, to every open connection bound to U, and to no
\* connection bound to another user and to no unbound connection.
C2_DirectMessageDelivery ==
    (AuthenticatedFrame("direct-message") /\ last.data.targetUserId # 0) =>
        DeliveredExactlyTo(last.data.targetUserId)

\* a direct message reached its target while a third connection, bound to
\* neither the sender's nor the target's user, was open
C2_Witness ==
    /\ AuthenticatedFrame("direct-message")
    /\ last.data.targetUserId # 0
    /\ last.data.targetUserId # last.clientInfo[1].userId
    /\ \E c \in Conns : c # last.ws /\ SentTo(c) # <<>>
    /\ \E c \in Conns : c # last.ws /\ IsOpen(c) /\ SentTo(c) = <<>>

(* ------------------------------- C3 ----------------------------------- *)

\* C3 as stated: for every directed type, a frame of a bound connection
\* carrying targetUserId = U is delivered to all the open connections bound
\* to U: the recipient is selected by targetUserId.
C3_RecipientIsTargetUserId ==
    \A t \in DirectedTypes :
        (AuthenticatedFrame(t) /\ last.data.targetUserId # 0) =>
            \A c \in Conns :
                (IsOpen(c) /\ BoundToUser(c, last.data.targetUserId)) => SentTo(c) # <<>>

\* the user the hub routes a directed frame to: targetUserId for the
\* messaging and follow types; ownerId for a like or a comment, which is
\* routed only when it also names the content (postId, storyId, reelId,
\* contentId and contentType)
C3_Recipient(data) ==
    IF data.type \in TargetTypes THEN data.targetUserId
    ELSE IF data.ownerId = 0 THEN 0
    ELSE IF \/ data.type = "like-post" /\ data.postId # 0
            \/ data.type = "like-story" /\ data.storyId # 0
            \/ data.type = "like-reel" /\ data.reelId # 0
            \/ data.type = "comment" /\ data.contentId # 0 /\ data.contentType # ""
         THEN data.ownerId
    ELSE 0

\* C3 (amended): a directed frame of a bound connection is delivered to all
\* the open connections bound to its recipient (zero, one or many) and to no
\* other connection; the recipient is targetUserId for `direct-message`,
\* `typing-indicator`, `follow-request` and `follow-accept`, and ownerId for
\* `like-post`, `like-story`, `like-reel` and `comment` when the frame names
\* the content; a like or a comment that does not is delivered to nobody.
C3_RecipientByType ==
    \A t \in DirectedTypes :
        AuthenticatedFrame(t) =>
            IF C3_Recipient(last.data) # 0
            THEN DeliveredExactlyTo(C3_Recipient(last.data))
            ELSE sent = <<>>

\* a like reached the owner's connection, and the open connection of the
\* user named in targetUserId received nothing
C3_Witness ==
    /\ AuthenticatedFrame("like-post")
    /\ last.data.ownerId # last.data.targetUserId
    /\ \E c \in Conns : BoundToUser(c, last.data.ownerId) /\ SentTo(c) # <<>>
    /\ \E c \in Conns :
          IsOpen(c) /\ BoundToUser(c, last.data.targetUserId) /\ SentTo(c) = <<>>

(* ------------------------------- C4 ----------------------------------- *)

\* C4: the connection that sent a directed frame receives nothing for it,
\* whatever targetUserId is (the sender's own userId included).
C4_SenderNotEchoed ==
    \A t \in DirectedTypes : AuthenticatedFrame(t) => SentTo(last.ws) = <<>>

(* --------------------------- presence --------------------------------- *)

\* this turn is ws.on('message') on an `auth` frame
AuthTurn == last.op = "message" /\ last.data.type = "auth"

\* this turn is ws.on('close')
CloseTurn == last.op = "close"

\* the connections other than that of this turn that are bound to user u
OthersBoundTo(u) == {c \in Conns \ {last.ws} : BoundToUser(c, u)}

\* the connection of this turn was bound to user u as the turn began
WasBoundTo(u) == last.clientInfo # <<>> /\ last.clientInfo[1].userId = u

\* the number of connections bound to user u as this turn began
BoundBefore(u) == Cardinality(OthersBoundTo(u)) + (IF WasBoundTo(u) THEN 1 ELSE 0)

\* the sends of this turn, to any connection, of envelopes of type t
AllOfType(t) == SelectSeq(sent, LAMBDA s : s.env.type = t)

(* ------------------------------- C5 ----------------------------------- *)

\* C5: when an `auth` binds the first connection of a user, every other
\* connection that is open receives one `user-online` carrying the userId
\* and the display name of the frame, and the newly bound connection
\* receives none.
C5_FirstBindAnnouncedToOthers ==
    (AuthTurn /\ BoundBefore(last.data.userId) = 0) =>
        \A c \in Conns :
            /\ Len(SentOfType(c, "user-online")) =
                   (IF c # last.ws /\ IsOpen(c) THEN 1 ELSE 0)
            /\ \A i \in 1..Len(SentOfType(c, "user-online")) :
                   /\ SentOfType(c, "user-online")[i].env.userId = last.data.userId
                   /\ SentOfType(c, "user-online")[i].env.username = last.data.username

\* a user's first connection was bound while a bound and an unbound
\* connection were open
C5_Witness ==
    /\ AuthTurn
    /\ last.data.userId # 0
    /\ BoundBefore(last.data.userId) = 0
    /\ \E c \in Conns : c # last.ws /\ IsOpen(c) /\ IsBound(c)
                        /\ SentOfType(c, "user-online") # <<>>
    /\ \E c \in Conns : c # last.ws /\ IsOpen(c) /\ ~IsBound(c)
                        /\ SentOfType(c, "user-online") # <<>>

(* ------------------------------- C6 ----------------------------------- *)

\* C6: an `auth` for a user who already has a bound connection (a second
\* device, or a repeated `auth` on the same connection) emits no
\* `user-online` to any connection.
C6_NoOnlineOnIntermediateBind ==
    (AuthTurn /\ last.data.userId # 0 /\ BoundBefore(last.data.userId) >= 1) =>
        AllOfType("user-online") = <<>>

(* ------------------------------- C7 ----------------------------------- *)

\* C7: when a bound connection closes and its user still has another bound
\* connection, no `user-offline` is emitted.
C7_NoOfflineWhileStillConnected ==
    (/\ CloseTurn
     /\ last.clientInfo # <<>>
     /\ last.clientInfo[1].userId # 0
     /\ OthersBoundTo(last.clientInfo[1].userId) # {}) =>
        AllOfType("user-offline") = <<>>

(* ------------------------------- C8 ----------------------------------- *)

\* C8: when the last bound connection of a user closes, each other open
\* connection receives exactly one `user-offline` for that user, and after
\* the close the connection is neither in the map of bindings nor among the
\* server's sockets.
C8_LastCloseAnnouncedOnce ==
    (/\ CloseTurn
     /\ last.clientInfo # <<>>
     /\ last.clientInfo[1].userId # 0
     /\ OthersBoundTo(last.clientInfo[1].userId) = {}) =>
        /\ \A c \in Conns :
              /\ Len(SentOfType(c, "user-offline")) =
                     (IF c # last.ws /\ IsOpen(c) THEN 1 ELSE 0)
              /\ \A i \in 1..Len(SentOfType(c, "user-offline")) :
                     SentOfType(c, "user-offline")[i].env.userId
                         = last.clientInfo[1].userId
        /\ ~IsBound(last.ws)
        /\ \A i \in 1..Len(WssClients(readyState)) : WssClients(readyState)[i] # last.ws

\* a user's last connection closed while one other connection was open and
\* another was in its closing handshake
C8_Witness ==
    /\ CloseTurn
    /\ last.clientInfo # <<>>
    /\ last.clientInfo[1].userId # 0
    /\ OthersBoundTo(last.clientInfo[1].userId) = {}
    /\ \E c \in Conns : IsOpen(c) /\ SentOfType(c, "user-offline") # <<>>
    /\ \E c \in Conns : readyState[c] = "CLOSING"

(* ------------------------------- C9 ----------------------------------- *)

\* the user ids listed by the snapshot sent to the connection of this turn
SnapshotUserIds ==
    LET users == SentOfType(last.ws, "online-users")[1].env.users
    IN  {users[i].userId : i \in 1..Len(users)}

\* C9: an `auth` sends its connection exactly one `online-users` snapshot
\* (and none to any other connection); the snapshot lists every user, other
\* than the one just bound, who has a bound connection, and no user who has
\* none.
C9_SnapshotListsTheOtherOnlineUsers ==
    AuthTurn =>
        /\ Len(SentOfType(last.ws, "online-users")) = 1
        /\ Len(AllOfType("online-users")) = 1
        /\ SnapshotUserIds =
               {u \in 1..MaxUsers :
                   u # last.data.userId /\ \E c \in Conns : BoundToUser(c, u)}

\* a second connection of a user was bound while another user was online:
\* the snapshot lists the other user and not the user's own first connection
C9_Witness ==
    /\ AuthTurn
    /\ last.data.userId # 0
    /\ OthersBoundTo(last.data.userId) # {}
    /\ SnapshotUserIds # {}

(* ------------------------------- C10 ---------------------------------- *)

\* C10: the close of a connection that was never bound emits no presence
\* event (`user-online` or `user-offline`) to any connection.
C10_UnboundCloseIsSilent ==
    (CloseTurn /\ last.clientInfo = <<>>) =>
        AllOfType("user-online") = <<>> /\ AllOfType("user-offline") = <<>>

\* an unbound connection closed while a bound connection was open
C10_Witness ==
    /\ CloseTurn
    /\ last.clientInfo = <<>>
    /\ \E c \in Conns : IsOpen(c) /\ IsBound(c)

(* ------------------------------- C11 ---------------------------------- *)

\* a step of ws.on('message') on an acknowledgment that carries a messageId
\* and an originalSenderId, from a bound connection
AckRelayStep ==
    /\ last = Idle
    /\ last'.op = "message"
    /\ last'.data.type = "ack"
    /\ last'.clientInfo # <<>>
    /\ last'.data.messageId # ""
    /\ last'.data.originalSenderId # 0

\* C11: an `ack` with messageId M and originalSenderId S from an
\* authenticated connection is relayed as {type: ack, messageId: M} to every
\* open connection bound to S, once each, and to no other connection; when S
\* has no open connection nothing is sent; the hub's state (registry,
\* connections, pending calls, contacts) is left as it was.
C11_AckRelayedToOriginalSender ==
    [][AckRelayStep =>
        /\ \A c \in Conns :
              SentTo(c)' = IF IsOpen(c) /\ BoundToUser(c, last'.data.originalSenderId)
                           THEN << [to |-> c,
                                    env |-> [type |-> "ack",
                                             messageId |-> last'.data.messageId]] >>
                           ELSE <<>>
        /\ UNCHANGED <<readyState, clients, tasks, contacts>>]_vars

\* an acknowledgment was relayed to the two open connections of S while a
\* third connection, bound to another user, received nothing
C11_Witness ==
    /\ AuthenticatedFrame("ack")
    /\ last.data.messageId # "" /\ last.data.originalSenderId # 0
    /\ Len(sent) = 2
    /\ \E c \in Conns : IsOpen(c) /\ IsBound(c) /\ SentTo(c) = <<>>

\* an acknowledgment whose original sender has no open connection
C11_WitnessNobody ==
    /\ AuthenticatedFrame("ack")
    /\ last.data.messageId # "" /\ last.data.originalSenderId # 0
    /\ sent = <<>>

(* ------------------------------- C12 ---------------------------------- *)

\* this turn is ws.on('message') on a frame of a bound connection that the
\* switch dispatches: a directed case or the default
DispatchedFrame ==
    /\ last.op = "message"
    /\ last.clientInfo # <<>>
    /\ last.data.type \in DirectedTypes \cup {OtherType}

\* C12: every envelope dispatched under a directed case or the default
\* carries in `sender` the binding of the sending connection, in
\* `originalSenderId` the userId of that binding, and in `messageId` the id
\* the client supplied or, when it supplied none, an id the hub generated;
\* all recipients of one inbound frame receive the same messageId.
C12_EnvelopeIsEnriched ==
    DispatchedFrame =>
        /\ \A i \in 1..Len(sent) :
              /\ sent[i].env.type = last.data.type
              /\ sent[i].env.sender = last.clientInfo
              /\ sent[i].env.originalSenderId = last.clientInfo[1].userId
              /\ IF last.data.messageId # ""
                 THEN sent[i].env.messageId = last.data.messageId
                 ELSE sent[i].env.messageId \in GeneratedIds
        /\ \A i, j \in 1..Len(sent) : sent[i].env.messageId = sent[j].env.messageId

\* a frame without messageId, naming another user as its sender, reached two
\* connections
C12_Witness ==
    /\ DispatchedFrame
    /\ last.data.messageId = ""
    /\ last.data.sender # <<>> /\ last.data.sender # last.clientInfo
    /\ last.data.originalSenderId # last.clientInfo[1].userId
    /\ Len(sent) = 2

(* ------------------------------- C13 ---------------------------------- *)

\* C13: no two distinct envelopes the hub originates carry the same
\* hub-generated messageId; in particular the `ai-assistant-message`
\* envelopes sent to different connections or users have different ids.
C13_HubMessageIdsUnique ==
    \A i, j \in 1..Len(sent) :
        (/\ i # j
         /\ sent[i].env.type = "ai-assistant-message"
         /\ sent[j].env.type = "ai-assistant-message")
        => sent[i].env.messageId # sent[j].env.messageId

(* ------------------------------- C14 ---------------------------------- *)

\* the frame lacks a field that its type needs
IsMalformed(data) ==
    \/ data.type \in DirectedTypes /\ data.targetUserId = 0
    \/ data.type = "ack" /\ (data.messageId = "" \/ data.originalSenderId = 0)
    \/ data.type = "search-query" /\ data.query = <<>>
    \/ data.type = "contact-status-update" /\ (data.contactId = 0 \/ data.status = "")

\* this turn handles a malformed frame of a bound connection: one that is not
\* JSON, or one that lacks a needed field
MalformedFrameTurn ==
    /\ last.clientInfo # <<>>
    /\ \/ last.op = "parse-error"
       \/ last.op = "message" /\ IsMalformed(last.data)

\* C14: a malformed frame from an authenticated connection does not
\* propagate: nothing is sent to any connection, the sender gets no reply,
\* its connection stays open and its binding is unchanged.
C14_MalformedFrameDoesNotPropagate ==
    MalformedFrameTurn =>
        /\ sent = <<>>
        /\ IsOpen(last.ws)
        /\ clients[last.ws] = last.clientInfo

(* ------------------------------- C15 ---------------------------------- *)

\* C15: a connection has a binding only if an `auth` carrying a userId was
\* received on it and it has not closed; a binding, once created, stays
\* until the connection closes; a closed connection has no binding and no
\* lookup by user or iteration over the connections selects it.
C15_BindingOnlyByValidAuthUntilClose ==
    [][\A c \in Conns :
          /\ IsBound(c)' => /\ clients'[c][1].userId # 0
                            /\ readyState'[c] \in {"OPEN", "CLOSING"}
          /\ (IsBound(c) /\ readyState'[c] # "CLOSED") => IsBound(c)'
          /\ \A i \in 1..Len(sent') : sent'[i].to = c => readyState'[c] # "CLOSED"]_vars

(* ------------------------------- C16 ---------------------------------- *)

\* C16: an `auth` on a connection already bound to user A that names another
\* user B is rejected: the connection stays bound to A.
C16_RebindingRejected ==
    (/\ AuthTurn
     /\ last.clientInfo # <<>>
     /\ last.clientInfo[1].userId # 0
     /\ last.data.userId # 0
     /\ last.data.userId # last.clientInfo[1].userId)
    => clients[last.ws] = last.clientInfo

(* ------------------------------- C17 ---------------------------------- *)

\* C17: every send the hub performs targets a connection that is open at
\* send time; in every path (a reply after an awaited call, the snapshot,
\* an `error` reply) a send to a connection that has closed is skipped.
C17_SendsOnlyToOpenConnections ==
    \A i \in 1..Len(sent) : readyState[sent[i].to] = "OPEN"

(* ------------------------------- C18 ---------------------------------- *)

\* C18: a frame of a type that no branch names, from an authenticated
\* connection, is delivered enriched, once, to every open connection other
\* than the sending one -- the sender's other connections and the
\* unauthenticated connections included -- and never to the sending
\* connection.
C18_DefaultBroadcastToOthers ==
    AuthenticatedFrame(OtherType) =>
        \A c \in Conns :
            /\ Len(SentTo(c)) = (IF c # last.ws /\ IsOpen(c) THEN 1 ELSE 0)
            /\ \A i \in 1..Len(SentTo(c)) : IsEnrichedFrame(SentTo(c)[i].env)

\* the frame reached another connection of the sender's user and a
\* connection with no binding
C18_Witness ==
    /\ AuthenticatedFrame(OtherType)
    /\ \E c \in Conns \ {last.ws} :
          /\ BoundToUser(c, last.clientInfo[1].userId)
          /\ Len(SentTo(c)) = 1
    /\ \E c \in Conns \ {last.ws} : ~IsBound(c) /\ Len(SentTo(c)) = 1
    /\ SentTo(last.ws) = <<>>

(* ------------------------------- C19 ---------------------------------- *)

\* C19: a `search-results` envelope is sent to the connection that made the
\* search and to no other, carries at most 5 results, and none of them is
\* the user the requesting connection was bound to.
C19_SearchResultsToRequesterOnly ==
    \A i \in 1..Len(sent) :
        sent[i].env.type = "search-results" =>
            /\ last.op = "search"
            /\ Len(sent) = 1
            /\ sent[i].to = last.task.ws
            /\ Len(sent[i].env.results) <= 5
            /\ \A r \in 1..Len(sent[i].env.results) :
                  sent[i].env.results[r].id # last.task.userId

\* a search that matched more than 5 users, the requester among them, was
\* answered while another connection was open
C19_Witness ==
    /\ last.op = "search"
    /\ Len(sent) = 1
    /\ sent[1].env.type = "search-results"
    /\ Len(sent[1].env.results) = 5
    /\ Len(SearchUsers(last.task.query)) > 5
    /\ \E k \in 1..5 : SearchUsers(last.task.query)[k].id = last.task.userId
    /\ \E c \in Conns \ {last.task.ws} : IsOpen(c)

(* ------------------------------- C20 ---------------------------------- *)

\* C20: a `search-query` whose query is the empty string is answered like
\* any other search (with `search-results` holding a bounded default list):
\* the frame starts the search whose completion sends that reply.
C20_EmptyQueryIsSearched ==
    (AuthenticatedFrame("search-query") /\ last.data.query = <<>>) =>
        \E t \in BagToSet(tasks) :
            t.kind = "search" /\ t.ws = last.ws /\ t.query = <<>>

(* ------------------------------- C21 ---------------------------------- *)

\* this turn is the continuation of a search or of a suggestion request
\* whose collaborator call failed
FireAndForgetFailed ==
    last.op \in {"search", "suggestions"} /\ last.task.outcome = "failed"

\* C21: when the search collaborator fails for a `search-query`, or the
\* suggestion collaborator fails after a bind, the requesting connection is
\* sent no envelope (neither results nor `error`) and no other connection
\* is sent anything.
C21_FireAndForgetFailureIsSwallowed ==
    FireAndForgetFailed => sent = <<>>

(* ------------------------------- C22 ---------------------------------- *)

\* this turn is the continuation of a contact update
ContactTurn == last.op = "contact"

\* the acting user and the two parties of the contact record of this turn
ContactParties ==
    {last.task.userId, contacts[last.task.contactId].userId,
     contacts[last.task.contactId].contactId}

\* C22: when the collaborator returns the updated record, one
\* `contact-status-changed` is sent to every open connection of the acting
\* user and of the other party of the contact, and to no connection of a
\* third user; when the call fails, one `error` with the code
\* CONTACT_STATUS_UPDATE_FAILED goes to the requesting connection and no
\* `contact-status-changed` is sent.
C22_ContactUpdateOutcome ==
    ContactTurn =>
        IF last.task.outcome = "failed"
        THEN sent = << [to |-> last.task.ws, env |-> ContactErrorEnvelope] >>
        ELSE last.task.contactId \in DOMAIN contacts =>
                \A c \in Conns :
                    /\ Len(SentTo(c)) =
                          (IF /\ IsOpen(c) /\ IsBound(c)
                              /\ clients[c][1].userId \in ContactParties
                           THEN 1 ELSE 0)
                    /\ \A i \in 1..Len(SentTo(c)) :
                          SentTo(c)[i].env.type = "contact-status-changed"

(* ------------------------- the scheduled jobs ------------------------- *)

\* this turn is the callback of the cleanup interval up to its await
SweepFired == last.op = "sweep-fire"

\* this turn is the rest of the callback, deleteExpiredStories having answered
SweepAnswered == last.op = "sweep" /\ last.task.outcome = "ok"

SweepDelivery ==
    SweepAnswered =>
        IF last.task.count > 0
        THEN \A c \in Conns :
                /\ Len(SentTo(c)) = (IF IsOpen(c) THEN 1 ELSE 0)
                /\ \A i \in 1..Len(SentTo(c)) :
                      SentTo(c)[i].env = StoriesCleanupEnvelope(last.task.count)
        ELSE sent = <<>>

\* C23: each firing of the cleanup interval awaits deleteExpiredStories once;
\* when it answers a count above 0, every open connection is sent one
\* stories-cleanup envelope carrying that count and no other connection is
\* sent anything; when it answers 0, nothing is sent.
C23_SweepInvokesOnceAndBroadcastsCount ==
    [][/\ SweepFired' => tasks' = tasks (+) SetToBag({SweepTask})
       /\ SweepDelivery']_vars

\* a cleanup that deleted two stories told two open connections, while a
\* third connection, closing, was told nothing
C23_Witness ==
    /\ SweepAnswered /\ last.task.count = 2
    /\ Len(sent) = 2
    /\ \E c \in Conns : readyState[c] = "CLOSING"

\* a cleanup that deleted nothing
C23_WitnessZero == SweepAnswered /\ last.task.count = 0 /\ \E c \in Conns : IsOpen(c)

\* C24: at no time are two invocations of the same scheduled job awaiting a
\* call: a firing of an interval while the previous run of its job is still
\* awaiting starts no second run.
C24_SingleFlightPerJob ==
    /\ Running(tasks, {"sweep"}) <= 1
    /\ Running(tasks, {"assistant"}) <= 1

\* C25: once registerRoutes has run, the interval of the cleanup and the
\* interval of the assistant's broadcast have each been created, once.
C25_BothJobsStartedOnce == \A j \in Jobs : timers[j].armed = 1

\* this step is a firing of the interval of the assistant's broadcast
AssistantFiring == last = Idle /\ last'.op = "assistant-fire"

\* the delay of the assistant's interval is in [30, 60) minutes
AssistantDelayInRange ==
    /\ timers["assistant"].delay >= 30 * 60 * 1000
    /\ timers["assistant"].delay < 60 * 60 * 1000

\* C26: the delay before each firing of the assistant's broadcast is drawn
\* anew, in [30, 60) minutes: every firing leaves the interval with a delay
\* set once more than before the firing, and in that range.
C26_DelayDrawnAnewEachCycle ==
    [][AssistantFiring =>
          /\ timers'["assistant"].armed = timers["assistant"].armed + 1
          /\ AssistantDelayInRange']_vars

\* this turn is the end of the awaits of the assistant's cycle for one user
AssistantTurn == last.op = "assistant"

\* the user this turn of the cycle serves
AssistantUser == last.task.queue[1]

\* storage.getUser found the user and the AI answered
AssistantSucceeded ==
    AssistantTurn /\ last.task.status = "generated" /\ GetUser(AssistantUser) # <<>>

AssistantDelivery ==
    AssistantSucceeded =>
        \A c \in Conns :
            /\ Len(SentTo(c)) = (IF IsOpen(c) /\ BoundToUser(c, AssistantUser)
                                 THEN 1 ELSE 0)
            /\ \A i \in 1..Len(SentTo(c)) :
                  SentTo(c)[i].env.type = "ai-assistant-message"

\* C27: in a cycle of the assistant's broadcast, a user whose calls succeed
\* is sent one ai-assistant-message on each open connection bound to that
\* user and on no other connection, whatever happened to the users served
\* before in the cycle; and whatever the outcome for a user, the users that
\* remain in the cycle are still to be served.
C27_AssistantDeliversPerUser ==
    [][/\ AssistantDelivery'
       /\ (last = Idle /\ AssistantTurn' /\ Tail(last'.task.queue) # <<>>) =>
              \E t \in BagToSet(tasks') :
                  t.kind = "assistant" /\ t.queue = Tail(last'.task.queue)]_vars

\* after the calls failed for the first user of the cycle, the second user
\* is sent the message on both of that user's connections, and the
\* connection of the first user is sent nothing
C27_Witness ==
    /\ AssistantSucceeded /\ last.task.failed = 1
    /\ Len(sent) = 2
    /\ \E c \in Conns : IsOpen(c) /\ IsBound(c) /\ ~BoundToUser(c, AssistantUser)
                          /\ clients[c][1].userId # 0

\* the AI call failed for the user this turn of the cycle serves
AssistantGenerationFailed == AssistantTurn /\ last.task.status = "default"

\* C28: when the AI call fails for a user in a cycle of the assistant's
\* broadcast, the user is skipped: no connection is sent an
\* ai-assistant-message, the default text included, in that user's turn.
C28_GenerationFailureSkipsUser == AssistantGenerationFailed => sent = <<>>

\* the user records an envelope carries
UserRecords(env) ==
    (IF "results" \in DOMAIN env THEN {env.results[i] : i \in DOMAIN env.results} ELSE {})
    \cup (IF "suggestions" \in DOMAIN env
          THEN {env.suggestions[i] : i \in DOMAIN env.suggestions} ELSE {})
    \cup (IF "users" \in DOMAIN env THEN {env.users[i] : i \in DOMAIN env.users} ELSE {})

\* C29: no user record of a search-results, friend-suggestions or
\* online-users envelope that the hub sends has a password field.
C29_NoPasswordOnTheWire ==
    \A i \in 1..Len(sent) :
        \A u \in UserRecords(sent[i].env) : "password" \notin DOMAIN u

\* this turn handled a frame of connection last.ws and ended in an error:
\* JSON.parse threw, or an awaited storage call rejected
ErrorTurn ==
    \/ last.op = "parse-error"
    \/ last.op \in {"suggestions", "search", "contact"} /\ last.task.outcome = "failed"

\* the error reply of this turn was sent on a socket that is not open
FailedSendTurn ==
    /\ last.op = "contact" /\ last.task.outcome = "failed"
    /\ \E i \in 1..Len(sent) : ~IsOpen(sent[i].to)

C30_WitnessParse ==
    /\ last.op = "parse-error"
    /\ \E c \in Conns \ {last.ws} : IsOpen(c) /\ IsBound(c)

(* --------------------- closure and work in flight --------------------- *)

\* the sends of this turn that reach their connection: those made on a
\* socket that is open
Delivered == SelectSeq(sent, LAMBDA e : IsOpen(e.to))

\* this turn is the rest of a handler of connection last.ws after its await,
\* and the connection has closed, or is closing, since the frame came
RequesterClosedTurn ==
    /\ last.op \in {"suggestions", "search", "contact"}
    /\ ~IsOpen(last.ws)

\* the contact update of this turn was applied to a record
ContactApplied ==
    /\ last.op = "contact" /\ last.task.outcome = "ok"
    /\ last.task.contactId \in DOMAIN contacts

ClosedRequesterDelivery ==
    RequesterClosedTurn =>
        /\ \A i \in 1..Len(Delivered) : Delivered[i].to # last.ws
        /\ (\E i \in 1..Len(sent) : sent[i].to = last.ws) =>
              (last.op = "contact" /\ last.task.outcome = "failed")
        /\ ContactApplied =>
              /\ contacts[last.task.contactId].status = last.task.status
              /\ \A c \in Conns \ {last.ws} :
                    /\ Len(SentTo(c)) =
                          (IF /\ IsOpen(c) /\ IsBound(c)
                              /\ clients[c][1].userId \in
                                    {last.task.userId,
                                     contacts[last.task.contactId].contactId}
                           THEN 1 ELSE 0)
                    /\ \A i \in 1..Len(SentTo(c)) :
                          SentTo(c)[i].env.type = "contact-status-changed"

\* C31: the close of a connection leaves the calls it awaits in flight; when
\* such a call answers after the close, the contact record is updated and
\* contact-status-changed goes to the other open connections the broadcast
\* selects, as it would have with the requester open, and nothing is
\* delivered to the closed connection (the only send made on it is the
\* error reply of a failed contact update, on a socket that is not open).
C31_ClosureDoesNotCancelDispatchedWork ==
    [][/\ (last = Idle /\ last'.op = "close") => tasks' = tasks
       /\ (last = Idle /\ RequesterClosedTurn') =>
             tasks' = tasks (-) SetToBag({[last'.task EXCEPT !.outcome = ""]})
       /\ ClosedRequesterDelivery']_vars

\* the update of a connection that has closed since is applied and told to
\* an open connection of the other party
C31_Witness ==
    /\ RequesterClosedTurn /\ ContactApplied
    /\ readyState[last.ws] = "CLOSED"
    /\ Len(Delivered) >= 1

\* the search of a connection that has closed since is answered to nobody
C31_WitnessSearch ==
    /\ RequesterClosedTurn /\ last.op = "search" /\ last.task.outcome = "ok"
    /\ readyState[last.ws] = "CLOSED"

(* ------------------------ order of the sends -------------------------- *)

\* the sends of an auth turn: user-online to the others, then, last, the
\* snapshot to the connection of the frame; no friend-suggestions yet
AuthSendOrder ==
    AuthTurn =>
        /\ Len(sent) >= 1
        /\ sent[Len(sent)].to = last.ws
        /\ sent[Len(sent)].env.type = "online-users"
        /\ \A i \in 1..(Len(sent) - 1) :
              sent[i].to # last.ws /\ sent[i].env.type = "user-online"

\* C32: a connection is sent the `connection` frame in the step that opens
\* it, once, and nothing before it; an auth turn sends user-online to the
\* others and then the online-users snapshot to its connection, and leaves
\* the suggestions call pending; friend-suggestions is sent only in a later
\* turn, when that call has answered.
C32_SendOrderPerConnection ==
    [][/\ \A c \in Conns :
             /\ readyState'[c] = "NONE" => SentTo(c)' = <<>>
             /\ (readyState[c] = "NONE" /\ readyState'[c] # "NONE") =>
                   SentTo(c)' = << [to |-> c, env |-> ConnectionEnvelope] >>
             /\ (last = Idle /\ SentOfType(c, "connection")' # <<>>) =>
                   readyState[c] = "NONE"
             /\ (last = Idle /\ SentOfType(c, "friend-suggestions")' # <<>>) =>
                   /\ last'.op = "suggestions"
                   /\ \E t \in BagToSet(tasks) : t.kind = "suggestions" /\ t.ws = c
       /\ AuthSendOrder'
       /\ (last = Idle /\ AuthTurn') =>
             /\ tasks' = tasks (+) SetToBag({SuggestionsTask(last'.ws, last'.data.userId)})
             /\ \A c \in Conns : SentOfType(c, "friend-suggestions")' = <<>>]_vars

\* an auth turn that announced the user to another connection and then sent
\* the snapshot
C32_Witness ==
    /\ AuthTurn /\ Len(sent) >= 2
    /\ sent[1].env.type = "user-online"
    /\ sent[Len(sent)].env.type = "online-users"

\* the suggestions triggered by an auth reach its connection in a later turn
C32_WitnessSuggestions ==
    last.op = "suggestions" /\ SentOfType(last.ws, "friend-suggestions") # <<>>

(* ------------------- the sender of a routed envelope ------------------ *)

\* the values a client can put in the `sender` of a frame
ClientSenders == {<<>>} \cup {<< [userId |-> u, username |-> NameOf(u)] >> : u \in 1..MaxUsers}

\* the frames that differ from data in `sender` and `originalSenderId` only
SenderVariants(data) ==
    {[data EXCEPT !.sender = sd, !.originalSenderId = o]
        : sd \in ClientSenders, o \in 0..MaxUsers}

\* the frame of this turn names as its sender a user other than the one its
\* connection is bound to
SpoofedTurn ==
    /\ DispatchedFrame
    /\ last.data.sender # <<>>
    /\ last.data.sender[1].userId # last.clientInfo[1].userId
    /\ last.data.originalSenderId # last.clientInfo[1].userId

\* C33: the envelopes sent for a frame dispatched under a directed case or
\* the default are those that would be sent for any frame that differs from
\* it only in the `sender` and `originalSenderId` the client supplied (the
\* generated messageId being the same), and their `sender` and
\* `originalSenderId` are those of the binding of the sending connection.
C33_SenderDependsOnBindingOnly ==
    DispatchedFrame =>
        /\ \A d \in SenderVariants(last.data) :
              \E mid \in GeneratedIds \cup {last.data.messageId} :
                  sent = MessageSends(readyState, clients, last.ws, d, last.clientInfo, mid)
        /\ \A i \in 1..Len(sent) :
              /\ sent[i].env.sender = last.clientInfo
              /\ sent[i].env.originalSenderId = last.clientInfo[1].userId

\* a frame naming another user as its sender was delivered
C33_Witness == SpoofedTurn /\ Len(sent) >= 1

(* ------------------------- the presence views ------------------------- *)

\* user u has a bound connection
HasBinding(u) == \E d \in Conns : BoundToUser(d, u)

\* the client of open connection c was last told that user u is online
ShowsOnline(c, u) == IsOpen(c) /\ view[c][u] = "user-online"

\* C34: between two turns, no open connection has user-online as the last
\* presence event it received for a user who has no bound connection.
C34_NoGhostInPresenceViews ==
    last = Idle =>
        \A c \in Conns, u \in 1..MaxUsers : ShowsOnline(c, u) => HasBinding(u)

(* ---------------------- delivery to the unbound ----------------------- *)

\* the types that are meant for the connections of a user
UserBoundTypes ==
    DirectedTypes \cup {"ack", "contact-status-changed", "ai-assistant-message"}

\* C35: no envelope of a directed type, no envelope of type ack, no
\* contact-status-changed and no ai-assistant-message is sent to a
\* connection that has no entry in the clients map as the handler runs.
C35_UserEnvelopesOnlyToBoundConnections ==
    \A i \in 1..Len(sent) :
        sent[i].env.type \in UserBoundTypes => IsBound(sent[i].to)

(* --------------------------- the snapshot ----------------------------- *)

\* no two entries of the list name the same user
ListsEachUserOnce(users) ==
    \A i, j \in 1..Len(users) : users[i].userId = users[j].userId => i = j

\* C36: the online-users snapshot lists each online user at most once.
C36_SnapshotListsEachUserOnce ==
    \A i \in 1..Len(sent) :
        sent[i].env.type = "online-users" => ListsEachUserOnce(sent[i].env.users)

(* ------------------------- the contact record ------------------------- *)

\* storage.updateContactStatus answered, and found no record to update
ContactAbsentTurn ==
    /\ last.op = "contact" /\ last.task.outcome = "ok"
    /\ last.task.contactId \notin DOMAIN contacts

\* C37: when the update of a contact answers without error and without a
\* record, nothing is sent: no contact-status-changed to anyone and no error
\* to the requester.
C37_AbsentContactSendsNothing == ContactAbsentTurn => sent = <<>>

\* the update of an absent contact, asked by an open connection of user 1
\* while a connection of user 2 is open
C37_Witness ==
    /\ ContactAbsentTurn
    /\ IsOpen(last.ws) /\ BoundToUser(last.ws, 1)
    /\ \E c \in Conns : IsOpen(c) /\ BoundToUser(c, 2)

\* this step is the rest of a contact update, and it changes the table
ContactChanged == last = Idle /\ last'.op = "contact" /\ contacts' # contacts

\* C38: a contact update changes a record only when the user bound to the
\* sending connection, as the frame came, is the owner or the contactId of
\* that record.
C38_OnlyPartiesChangeContact ==
    [][ContactChanged =>
          last'.task.userId \in {contacts[last'.task.contactId].userId,
                                 contacts[last'.task.contactId].contactId}]_vars

(* --------------------------- the registry ----------------------------- *)

\* this turn dispatched a frame that is not an auth frame, or went on with
\* a handler after its await
DispatchTurn ==
    \/ last.op = "message" /\ last.data.type # "auth"
    \/ last.op \in {"parse-error", "suggestions", "search", "contact"}

\* this turn ran a part of a scheduled job
JobTurn == last.op \in {"sweep-fire", "sweep", "assistant-fire", "assistant"}

\* C39: a turn that dispatches a frame other than auth, or runs a part of a
\* scheduled job, leaves the sockets of the server and every binding as
\* they were; a binding changes only in an auth turn or in a close turn.
C39_OnlyAuthAndCloseChangeRegistry ==
    [][/\ (last = Idle /\ (DispatchTurn' \/ JobTurn')) =>
             clients' = clients /\ readyState' = readyState
       /\ clients' # clients => (AuthTurn' \/ CloseTurn')]_vars

\* a cleanup told two open connections, one bound and one not, while a
\* third is bound and closing
C39_Witness ==
    /\ last.op = "sweep" /\ Len(sent) = 2
    /\ \E c \in Conns : IsOpen(c) /\ IsBound(c)
    /\ \E c \in Conns : IsOpen(c) /\ ~IsBound(c)
    /\ \E c \in Conns : readyState[c] = "CLOSING" /\ IsBound(c)

\* a contact update was applied and told to a bound connection
C39_WitnessDispatch == ContactApplied /\ Len(sent) >= 1

(* ------------------------- frames during an await --------------------- *)

\* a contact update is suspended at its await
ContactPending == \E t \in BagToSet(tasks) : t.kind = "contact"

\* this turn dispatched a frame of an unlisted type of a bound connection
DefaultTurn ==
    last.op = "message" /\ last.data.type = OtherType /\ last.clientInfo # <<>>

\* C40: while a contact update is suspended at its await, a frame of any
\* open connection, the one that sent the update included, is taken by the
\* handler at once (frames that start an await of their own aside, which
\* the model caps), and what it sends is sent in that turn, before the
\* contact-status-changed of the pending update.
C40_HandlingIsNotSerialized ==
    ContactPending =>
        /\ last = Idle =>
              \A ws \in Conns, data \in RegistryFrames :
                  (IsOpen(ws) /\ Spawned(ws, data, ClientsGet(clients, ws)) = {}) =>
                      ENABLED OnMessage(ws, data)
        /\ DefaultTurn =>
              \A c \in Conns :
                  Len(SentTo(c)) = (IF c # last.ws /\ IsOpen(c) THEN 1 ELSE 0)

\* the connection whose contact update is pending sent a later frame, and
\* a connection of the user that update concerns has received it
C40_Witness ==
    /\ DefaultTurn
    /\ \E t \in BagToSet(tasks) : t.kind = "contact" /\ t.ws = last.ws
    /\ \E c \in Conns \ {last.ws} : IsOpen(c) /\ BoundToUser(c, 1) /\ SentTo(c) # <<>>

====
